---- MODULE Spec2Model ----
(***************************************************************************)
(* Model of scripts/update_dev_config.py: the migration tool that rewrites *)
(* bare uses of the dev_config constants into `dev.<constant>`.            *)
(*                                                                         *)
(* Text is a sequence of symbols.  A symbol is a TLA+ string that stands   *)
(* for the same run of characters in the Dart source: a whitespace         *)
(* character (" " or "\n"), a punctuation character, or a run of word      *)
(* characters ("const", "dev", "kPreviewTileZoom", "Edit", ...).  Two      *)
(* adjacent word symbols form one longer word, exactly as their characters *)
(* do: <<"kNodeRingColorPending", "Edit">> is kNodeRingColorPendingEdit.   *)
(* Substring tests and regular expressions are computed on the symbols     *)
(* the way Python computes them on the characters.                         *)
(***************************************************************************)
EXTENDS Integers, Sequences, FiniteSets, TLC

VARIABLES
    pc,             \* position of the driver: main's control point
    disk,           \* the tree: sequence of [path, content] as os.walk meets them
    dart_files,     \* main: the list find_dart_files returned (indices into disk)
    i,              \* main: index into dart_files of the next file to process
    run,            \* number of the current run of main
    updated_files,  \* main: the counter of files process_file reported updated
    log,            \* one record per process_file call of all runs
    failures,       \* number of reads and writes the file system has failed so far
    constant,       \* engine driver: the identifier given to the engine first
    other,          \* engine driver: the identifier given to the engine second
    input,          \* engine driver: the content the engine was first given
    content,        \* engine driver: content threaded through constant, then other
    changed,        \* engine driver: the flag returned by the last call on content
    content2,       \* engine driver: content threaded through other, then constant
    changed2        \* engine driver: the flag returned by the last call on content2

vars == <<pc, disk, dart_files, i, run, updated_files, log, failures,
          constant, other, input, content, changed, content2, changed2>>

mainVars == <<disk, dart_files, i, run, updated_files, log, failures>>
engineVars == <<constant, other, input, content, changed, content2, changed2>>

----------------------------------------------------------------------------
(* Bounds                                                                  *)

\* runs of main over one tree
MaxRuns == 2

\* .dart files of a tree of the whole-run specification
MaxFiles == 2

\* reads and writes that the file system fails in one behaviour
MaxFailures == 1

\* fragments concatenated into one input text
MaxFrags == 5

\* fragments concatenated into one argument list
MaxArgs == 3

----------------------------------------------------------------------------
(* Symbols and character classes                                           *)

\* \s of the regular expressions
Whitespace == {" ", "\n"}

\* the characters of the model that are neither \w nor \s
Punctuation == {".", "(", ")", "=", ";", ",", ":"}

\* \w: a symbol that is a run of word characters
IsWord(s) == s \notin Whitespace /\ s \notin Punctuation

\* s[k] when k is inside s, else a mark that equals no symbol of a text
At(s, k) == IF k >= 1 /\ k <= Len(s) THEN s[k] ELSE "<end>"

\* pattern p occurs in s starting at position k
SubAt(s, p, k) ==
    /\ k >= 1
    /\ k + Len(p) - 1 <= Len(s)
    /\ \A j \in 1..Len(p) : s[k + j - 1] = p[j]

\* Python's `p in s` for a non-empty p
Contains(s, p) == \E k \in 1..Len(s) : SubAt(s, p, k)

\* s[k:] in Python, with k a 1-based first index
From(s, k) == SubSeq(s, k, Len(s))

\* greedy \s* from position k: the first position at or after k holding no whitespace
RECURSIVE SkipSpace(_, _)
SkipSpace(s, k) ==
    IF k <= Len(s) /\ s[k] \in Whitespace THEN SkipSpace(s, k + 1) ELSE k

\* greedy \w* from position k: the first position at or after k holding no word symbol
RECURSIVE SkipWord(_, _)
SkipWord(s, k) ==
    IF k <= Len(s) /\ IsWord(s[k]) THEN SkipWord(s, k + 1) ELSE k

\* \b before a word symbol at position k
WordStart(s, k) == k = 1 \/ ~IsWord(s[k - 1])

\* the first position at or after k holding symbol x, or 0
RECURSIVE Find(_, _, _)
Find(s, x, k) ==
    IF k > Len(s) THEN 0
    ELSE IF s[k] = x THEN k
    ELSE Find(s, x, k + 1)

\* str.replace(old, new, 1): the first occurrence of old replaced
RECURSIVE ReplaceFirstFrom(_, _, _, _)
ReplaceFirstFrom(s, old, new, k) ==
    IF k + Len(old) - 1 > Len(s) THEN s
    ELSE IF SubAt(s, old, k)
         THEN SubSeq(s, 1, k - 1) \o new \o From(s, k + Len(old))
         ELSE ReplaceFirstFrom(s, old, new, k + 1)

ReplaceFirst(s, old, new) == ReplaceFirstFrom(s, old, new, 1)

----------------------------------------------------------------------------
(* The Constant Registry                                                   *)

kNodeRingColorPending == <<"kNodeRingColorPending">>
kNodeRingColorPendingEdit == <<"kNodeRingColorPending", "Edit">>
kNodeRingColorPendingDeletion == <<"kNodeRingColorPending", "Deletion">>
kPreviewTileZoom == <<"kPreviewTileZoom">>

\* CONSTANTS of the script, in its order
Registry == <<
    <<"kFallbackTileEstimateKb">>, kPreviewTileZoom, <<"kPreviewTileY">>, <<"kPreviewTileX">>,
    <<"kDirectionConeHalfAngle">>, <<"kDirectionConeBaseLength">>, <<"kDirectionConeColor">>, <<"kDirectionConeOpacity">>,
    <<"kBottomButtonBarOffset">>, <<"kButtonBarHeight">>, <<"kAttributionSpacingAboveButtonBar">>,
    <<"kZoomIndicatorSpacingAboveButtonBar">>, <<"kScaleBarSpacingAboveButtonBar">>, <<"kZoomControlsSpacingAboveButtonBar">>,
    <<"kClientName">>, <<"kSuspectedLocationsCsvUrl">>, <<"kEnableDevelopmentModes">>, <<"kEnableNodeEdits">>, <<"kEnableNodeExtraction">>,
    <<"kNodeMinZoomLevel">>, <<"kOsmApiMinZoomLevel">>, <<"kMarkerTapTimeout">>, <<"kDebounceCameraRefresh">>,
    <<"kPreFetchAreaExpansionMultiplier">>, <<"kPreFetchZoomLevel">>, <<"kMaxPreFetchSplitDepth">>, <<"kDataRefreshIntervalSeconds">>,
    <<"kFollowMeAnimationDuration">>, <<"kMinSpeedForRotationMps">>, <<"kProximityAlertDefaultDistance">>,
    <<"kProximityAlertMinDistance">>, <<"kProximityAlertMaxDistance">>, <<"kProximityAlertCooldown">>,
    <<"kNodeDoubleTapZoomDelta">>, <<"kScrollWheelVelocity">>, <<"kPinchZoomThreshold">>, <<"kPinchMoveThreshold">>, <<"kRotationThreshold">>,
    <<"kTileFetchMaxAttempts">>, <<"kTileFetchInitialDelayMs">>, <<"kTileFetchBackoffMultiplier">>, <<"kTileFetchMaxDelayMs">>,
    <<"kTileFetchRandomJitterMs">>, <<"kMaxUserDownloadZoomSpan">>, <<"kMaxReasonableTileCount">>, <<"kAbsoluteMaxTileCount">>,
    <<"kAbsoluteMaxZoom">>, <<"kNodeIconDiameter">>, <<"kNodeDotOpacity">>, <<"kNodeRingColorReal">>, <<"kNodeRingColorMock">>,
    kNodeRingColorPending, <<"kNodeRingColorEditing">>, kNodeRingColorPendingEdit, kNodeRingColorPendingDeletion,
    <<"kDirectionButtonMinWidth">>, <<"kDirectionButtonMinHeight">>
>>

RegistryIds == {Registry[k] : k \in 1..Len(Registry)}

\* f"dev.{constant}"
Qualified(id) == <<"dev", ".">> \o id

----------------------------------------------------------------------------
(* The Rewrite Engine: process_constant_in_content                         *)

\* `(\w+)\s+(\w+)\s*=\s*<id>\s*;` from position k: the match's two groups
\* and the position after it, or end = 0 when there is no match
DeclarationTail(s, k, id) ==
    LET t1 == SkipWord(s, k)
        t2 == SkipSpace(s, t1)
        n1 == SkipWord(s, t2)
        e1 == SkipSpace(s, n1)
        v1 == SkipSpace(s, e1 + 1)
        s1 == SkipSpace(s, v1 + Len(id))
    IN  IF /\ t1 > k
           /\ t2 > t1
           /\ n1 > t2
           /\ At(s, e1) = "="
           /\ SubAt(s, id, v1)
           /\ At(s, s1) = ";"
        THEN [end |-> s1 + 1, type |-> SubSeq(s, k, t1 - 1), name |-> SubSeq(s, t2, n1 - 1)]
        ELSE [end |-> 0, type |-> <<>>, name |-> <<>>]

\* pattern1 = \bconst\s+(\w+)\s+(\w+)\s*=\s*<id>\s*; matched at position k
pattern1(s, k, id) ==
    LET a == SkipSpace(s, k + 1)
    IN  IF WordStart(s, k) /\ At(s, k) = "const" /\ a > k + 1
        THEN DeclarationTail(s, a, id)
        ELSE [end |-> 0, type |-> <<>>, name |-> <<>>]

\* replacement1 = final \1 \2 = dev.<id>;
replacement1(m, id) ==
    <<"final", " ">> \o m.type \o <<" ">> \o m.name \o <<" ", "=", " ">> \o Qualified(id) \o <<";">>

\* re.sub(pattern1, replacement1, content), scanning from position k
RECURSIVE sub1(_, _, _)
sub1(s, k, id) ==
    IF k > Len(s) THEN <<>>
    ELSE LET m == pattern1(s, k, id)
         IN  IF m.end > 0
             THEN replacement1(m, id) \o sub1(s, m.end, id)
             ELSE <<s[k]>> \o sub1(s, k + 1, id)

\* pattern2 = \bstatic\s+const\s+(\w+)\s+(\w+)\s*=\s*<id>\s*; matched at position k
pattern2(s, k, id) ==
    LET a == SkipSpace(s, k + 1)
        b == SkipSpace(s, a + 1)
    IN  IF /\ WordStart(s, k) /\ At(s, k) = "static" /\ a > k + 1
           /\ At(s, a) = "const" /\ b > a + 1
        THEN DeclarationTail(s, b, id)
        ELSE [end |-> 0, type |-> <<>>, name |-> <<>>]

\* replacement2 = static final \1 \2 = dev.<id>;
replacement2(m, id) == <<"static", " ">> \o replacement1(m, id)

\* re.sub(pattern2, replacement2, content), scanning from position k
RECURSIVE sub2(_, _, _)
sub2(s, k, id) ==
    IF k > Len(s) THEN <<>>
    ELSE LET m == pattern2(s, k, id)
         IN  IF m.end > 0
             THEN replacement2(m, id) \o sub2(s, m.end, id)
             ELSE <<s[k]>> \o sub2(s, k + 1, id)

\* const_constructor_pattern = \bconst\s+(\w+)\s*\([^)]*<id>[^)]*\) matched
\* at position k: start, the position after the match and group 1, or end = 0
const_constructor_pattern(s, k, id) ==
    LET a == SkipSpace(s, k + 1)
        b == SkipWord(s, a)
        p == SkipSpace(s, b)
        q == Find(s, ")", p + 1)
    IN  IF /\ WordStart(s, k) /\ At(s, k) = "const" /\ a > k + 1
           /\ b > a
           /\ At(s, p) = "("
           /\ q > 0
           /\ Contains(SubSeq(s, p + 1, q - 1), id)
        THEN [start |-> k, end |-> q + 1, constructor_name |-> SubSeq(s, a, b - 1)]
        ELSE [start |-> k, end |-> 0, constructor_name |-> <<>>]

\* matches = list(re.finditer(const_constructor_pattern, content)), from position k
RECURSIVE matches(_, _, _)
matches(s, k, id) ==
    IF k > Len(s) THEN <<>>
    ELSE LET m == const_constructor_pattern(s, k, id)
         IN  IF m.end > 0
             THEN <<m>> \o matches(s, m.end, id)
             ELSE matches(s, k + 1, id)

\* the body of `for match in reversed(matches)`: the first 'const <name>' of
\* the matched text replaced by '<name>', spliced in at the match's position
splice(s, original, m) ==
    LET full_match == SubSeq(original, m.start, m.end - 1)
        replacement == ReplaceFirst(full_match,
                                    <<"const", " ">> \o m.constructor_name,
                                    m.constructor_name)
    IN  SubSeq(s, 1, m.start - 1) \o replacement \o From(s, m.end)

\* the loop over reversed(matches): the matches ms[1..n] still to splice
RECURSIVE remove_const(_, _, _, _)
remove_const(s, original, ms, n) ==
    IF n = 0 THEN s
    ELSE remove_const(splice(s, original, ms[n]), original, ms, n - 1)

\* pattern4 = \b<id>\b(?![\w.]) matched at position k
pattern4(s, k, id) ==
    /\ WordStart(s, k)
    /\ SubAt(s, id, k)
    /\ \/ k + Len(id) > Len(s)
       \/ /\ ~IsWord(s[k + Len(id)])
          /\ s[k + Len(id)] # "."

\* re.sub(pattern4, replacement4, content), scanning from position k
RECURSIVE sub4(_, _, _)
sub4(s, k, id) ==
    IF k > Len(s) THEN <<>>
    ELSE IF pattern4(s, k, id)
         THEN Qualified(id) \o sub4(s, k + Len(id), id)
         ELSE <<s[k]>> \o sub4(s, k + 1, id)

\* the early return `if f"dev.{constant}" in content`
already_qualified(s, id) == Contains(s, Qualified(id))

\* the early return `if constant not in content`
not_found(s, id) == ~Contains(s, id)

\* process_constant_in_content(content, constant): <<content, changed>>.
\* Each stage is computed once, as the one element of a set, and handed to
\* the next stage as a value.
process_constant_in_content(s, id) ==
    IF already_qualified(s, id) THEN <<s, FALSE>>
    ELSE IF not_found(s, id) THEN <<s, FALSE>>
    ELSE LET rule1 == {sub1(s, 1, id)}
             rule2 == {sub2(c1, 1, id) : c1 \in rule1}
             found == {<<c2, matches(c2, 1, id)>> : c2 \in rule2}
             rule3 == {remove_const(m[1], m[1], m[2], Len(m[2])) : m \in found}
             rule4 == {sub4(c3, 1, id) : c3 \in rule3}
         IN  CHOOSE result \in {<<c4, c4 # s>> : c4 \in rule4} : TRUE

----------------------------------------------------------------------------
(* File Orchestrator and main                                              *)

\* the body of `for constant in CONSTANTS` of process_file: one call of the
\* engine on the content so far, the identifier noted when it changed it
process_one_constant(st, id) ==
    LET noted(r) == [content |-> r[1],
                     changes_made |-> IF r[2] THEN Append(st.changes_made, id)
                                      ELSE st.changes_made]
    IN  CHOOSE result \in {noted(r) : r \in {process_constant_in_content(st.content, id)}} : TRUE

\* `for constant in CONSTANTS` of process_file, for Registry[lo..hi] in order.
\* The range is run as its first half followed by its second half, which is
\* the same sequence of calls, nested only log(hi - lo) deep when evaluated.
RECURSIVE process_each_constant(_, _, _)
process_each_constant(st, lo, hi) ==
    IF lo = hi THEN process_one_constant(st, Registry[lo])
    ELSE LET mid == (lo + hi) \div 2
         IN  CHOOSE result \in {process_each_constant(first, mid + 1, hi) :
                                   first \in {process_each_constant(st, lo, mid)}} : TRUE

\* process_file writing back whatever it computed
needs_write_always(s, original_content) == TRUE

\* `if content != original_content` of process_file
needs_write(s, original_content) == s # original_content

\* what process_file returns after `except Exception` around the write
write_failed_result == FALSE

\* a read error escaping process_file
read_error_escapes == FALSE

\* `except Exception` around the read catches what open and read raise
read_error_caught == TRUE

\* `except Exception` around the write catches what open and write raise
write_error_caught == TRUE

\* what the file system does to one process_file call: nothing, open or read
\* for reading raises, open for writing raises, or the write raises after
\* open has truncated the file
IO == {"ok", "read_error", "open_error", "write_error"}

\* process_file(filepath) on a file holding text: for each outcome io of the
\* file system, what it read, computed, did to the file and returned, or
\* that it raised.  r is what the loop over CONSTANTS computes from text.
process_file(text) ==
    LET outcome(r, io) ==
            IF io = "read_error"
            THEN [read_ok |-> FALSE, original |-> <<>>, final |-> <<>>, changes_made |-> <<>>,
                  opened |-> FALSE, wrote |-> FALSE, after |-> text, failed |-> TRUE,
                  raised |-> ~read_error_caught, ret |-> FALSE]
            ELSE IF ~needs_write(r.content, text)
            THEN [read_ok |-> TRUE, original |-> text, final |-> r.content,
                  changes_made |-> r.changes_made,
                  opened |-> FALSE, wrote |-> FALSE, after |-> text, failed |-> FALSE,
                  raised |-> FALSE, ret |-> FALSE]
            ELSE IF io = "open_error"
            THEN [read_ok |-> TRUE, original |-> text, final |-> r.content,
                  changes_made |-> r.changes_made,
                  opened |-> FALSE, wrote |-> FALSE, after |-> text, failed |-> TRUE,
                  raised |-> ~write_error_caught, ret |-> write_failed_result]
            ELSE IF io = "write_error"
            THEN [read_ok |-> TRUE, original |-> text, final |-> r.content,
                  changes_made |-> r.changes_made,
                  opened |-> TRUE, wrote |-> FALSE, after |-> <<>>, failed |-> TRUE,
                  raised |-> ~write_error_caught, ret |-> write_failed_result]
            ELSE [read_ok |-> TRUE, original |-> text, final |-> r.content,
                  changes_made |-> r.changes_made,
                  opened |-> TRUE, wrote |-> TRUE, after |-> r.content, failed |-> FALSE,
                  raised |-> FALSE, ret |-> TRUE]
    IN  CHOOSE result \in {[io \in IO |-> outcome(r, io)] : r \in {process_each_constant(
                [content |-> text, changes_made |-> <<>>], 1, Len(Registry))}} : TRUE

\* file.endswith('.dart')
is_dart(path) == Len(path) > 0 /\ path[Len(path)] = ".dart"

\* 'dev_config.dart' not in path
not_dev_config(path) == ~Contains(path, <<"dev_config", ".dart">>)

\* find_dart_files(): the entries of the tree os.walk yields from position k on
\* that are kept
RECURSIVE find_dart_files(_, _)
find_dart_files(tree, k) ==
    IF k > Len(tree) THEN <<>>
    ELSE IF is_dart(tree[k].path) /\ not_dev_config(tree[k].path)
         THEN <<k>> \o find_dart_files(tree, k + 1)
         ELSE find_dart_files(tree, k + 1)

\* main up to the loop: discovery, the `if not dart_files: return`, the counter
Main ==
    /\ pc = "start"
    /\ dart_files' = find_dart_files(disk, 1)
    /\ IF dart_files' = <<>>
       THEN pc' = "no_files" /\ UNCHANGED <<i, updated_files>>
       ELSE pc' = "loop" /\ i' = 1 /\ updated_files' = 0
    /\ UNCHANGED <<disk, run, log, failures>>
    /\ UNCHANGED engineVars

\* one iteration of `for filepath in dart_files`: process_file and the count;
\* an exception that process_file lets out ends main
ProcessFile ==
    /\ pc = "loop"
    /\ i <= Len(dart_files)
    /\ \E f \in {dart_files[i]} :
         \E outcomes \in {process_file(disk[f].content)} : \E r \in {outcomes[io] : io \in IO} :
             /\ failures' = IF r.failed THEN failures + 1 ELSE failures
             /\ failures' <= MaxFailures
             /\ disk' = [disk EXCEPT ![f].content = r.after]
             /\ log' = Append(log, [run |-> run, file |-> f, before |-> disk[f].content,
                                    read_ok |-> r.read_ok, original |-> r.original,
                                    final |-> r.final, changes_made |-> r.changes_made,
                                    opened |-> r.opened, wrote |-> r.wrote,
                                    after |-> r.after, ret |-> r.ret])
             /\ IF r.raised
                THEN pc' = "aborted" /\ UNCHANGED <<i, updated_files>>
                ELSE /\ pc' = pc
                     /\ i' = i + 1
                     /\ updated_files' = IF r.ret THEN updated_files + 1 ELSE updated_files
    /\ UNCHANGED <<dart_files, run>>
    /\ UNCHANGED engineVars

\* the end of the loop: the summary lines of main
Summary ==
    /\ pc = "loop"
    /\ i > Len(dart_files)
    /\ pc' = "done"
    /\ UNCHANGED mainVars
    /\ UNCHANGED engineVars

\* the script is started again on the tree the last run left
Rerun ==
    /\ pc = "done"
    /\ run < MaxRuns
    /\ run' = run + 1
    /\ pc' = "start"
    /\ UNCHANGED <<disk, dart_files, i, updated_files, log, failures>>
    /\ UNCHANGED engineVars

Next == Main \/ ProcessFile \/ Summary \/ Rerun

----------------------------------------------------------------------------
(* Input texts                                                             *)

\* the identifiers the engine is driven with: one that is a prefix of
\* another Registry identifier, and that other identifier
EngineIds == {kNodeRingColorPending, kNodeRingColorPendingEdit}

\* pieces of Dart text that input texts are concatenated from
Fragments == {
    <<"const", " ", "C", "(">>, <<")">>, kNodeRingColorPending, <<"Edit">>,
    <<".">>, <<"dev">>, <<" ">> }

\* every concatenation of at most n pieces of F
RECURSIVE Texts(_, _)
Texts(F, n) ==
    IF n = 0 THEN {<<>>}
    ELSE LET shorter == Texts(F, n - 1)
         IN  shorter \cup {t \o f : t \in shorter, f \in F}

Types == {<<"int">>, <<"double">>}
Names == {<<"kFoo">>, <<"kBar">>}
DeclarationIds == EngineIds \cup {kPreviewTileZoom}

\* `[static ]const T n = id;`
Declaration(scope, T, n, id) ==
    scope \o <<"const", " ">> \o T \o <<" ">> \o n \o <<" ", "=", " ">> \o id \o <<";">>

Declarations ==
    {Declaration(scope, T, n, id) :
        scope \in {<<>>, <<"static", " ">>}, T \in Types, n \in Names, id \in DeclarationIds}

\* pieces of an argument list
ArgFragments == {
    kPreviewTileZoom, kNodeRingColorPending, kNodeRingColorPendingEdit,
    <<",", " ">>, <<"color", ":", " ">>, <<"dev", ".">> }

\* `const C(args)`
Site(args) == <<"const", " ", "C", "(">> \o args \o <<")">>

Sites == {Site(args) : args \in Texts(ArgFragments, MaxArgs)}

\* the texts the engine is driven with
Inputs == Texts(Fragments, MaxFrags) \cup Declarations \cup Sites

\* contents of the files of a whole-run tree: unrelated text, a bare use,
\* a member access inside nested const construction sites, a site with two
\* identifiers, a partially migrated file
FileContents == {
    <<"int", " ", "n", ";">>,
    <<"n", " ", "=", " ">> \o kPreviewTileZoom \o <<";">>,
    Site(Site(kPreviewTileZoom \o <<".", "n">>)),
    Site(<<"dev", ".">> \o kPreviewTileZoom \o <<",", " ">> \o kPreviewTileZoom) }

\* the texts of a single-file tree
FileInputs == FileContents \cup Declarations \cup Sites

\* the i-th source file of a tree
DartPath(k) == <<"./lib/", ToString(k), ".dart">>

\* the tree with the given contents in its source files, next to a file that
\* is no Dart file and the file that defines the constants
Tree(contents) ==
    <<[path |-> <<"./", "README", ".md">>, content |-> <<"dev_config">>]>>
    \o [k \in 1..Len(contents) |-> [path |-> DartPath(k), content |-> contents[k]]]
    \o <<[path |-> <<"./lib/", "dev_config", ".dart">>,
          content |-> Declaration(<<>>, <<"int">>, kPreviewTileZoom, <<"15">>)]>>

\* all sequences over S of length at most n
RECURSIVE SeqsUpTo(_, _)
SeqsUpTo(S, n) ==
    IF n = 0 THEN {<<>>}
    ELSE LET shorter == SeqsUpTo(S, n - 1)
         IN  shorter \cup {Append(t, x) : t \in shorter, x \in S}

----------------------------------------------------------------------------
(* Specifications                                                          *)

EngineIdle ==
    /\ constant = <<>> /\ other = <<>> /\ input = <<>>
    /\ content = <<>> /\ changed = FALSE
    /\ content2 = <<>> /\ changed2 = FALSE

\* a tree of up to MaxFiles source files, before the first run of main
Init ==
    /\ pc = "start"
    /\ disk \in {Tree(cs) : cs \in SeqsUpTo(FileContents, MaxFiles)}
    /\ dart_files = <<>>
    /\ i = 1
    /\ run = 1
    /\ updated_files = 0
    /\ log = <<>>
    /\ failures = 0
    /\ EngineIdle

Spec == Init /\ [][Next]_vars

\* a tree of one source file, before the first run of main
InitFile ==
    /\ pc = "start"
    /\ disk \in {Tree(<<c>>) : c \in FileInputs}
    /\ dart_files = <<>>
    /\ i = 1
    /\ run = 1
    /\ updated_files = 0
    /\ log = <<>>
    /\ failures = 0
    /\ EngineIdle

SpecFile == InitFile /\ [][Next]_vars

\* the engine alone, about to be called on an input text
InitEngine ==
    /\ pc = "engine"
    /\ disk = <<>> /\ dart_files = <<>> /\ i = 1 /\ run = 1
    /\ updated_files = 0 /\ log = <<>> /\ failures = 0
    /\ constant \in EngineIds
    /\ other \in EngineIds
    /\ input \in Inputs
    /\ content = input /\ changed = FALSE
    /\ content2 = input /\ changed2 = FALSE

\* the first call: process_constant_in_content(input, constant), and in the
\* opposite order process_constant_in_content(input, other)
RewriteFirst ==
    /\ pc = "engine"
    /\ LET r == process_constant_in_content(content, constant)
           r2 == process_constant_in_content(content2, other)
       IN  /\ content' = r[1] /\ changed' = r[2]
           /\ content2' = r2[1] /\ changed2' = r2[2]
    /\ pc' = "once"
    /\ UNCHANGED <<constant, other, input>>
    /\ UNCHANGED mainVars

\* the second call, on the output of the first: with other where the first
\* was with constant, and with constant where the first was with other
RewriteSecond ==
    /\ pc = "once"
    /\ LET r == process_constant_in_content(content, other)
           r2 == process_constant_in_content(content2, constant)
       IN  /\ content' = r[1] /\ changed' = r[2]
           /\ content2' = r2[1] /\ changed2' = r2[2]
    /\ pc' = "twice"
    /\ UNCHANGED <<constant, other, input>>
    /\ UNCHANGED mainVars

NextEngine == RewriteFirst \/ RewriteSecond

SpecEngine == InitEngine /\ [][NextEngine]_vars

----------------------------------------------------------------------------
(* Properties                                                              *)

\* C1 (idempotence of the engine): when the engine is called a second time
\* with the same identifier on its own output, it returns that output
\* unchanged and changed = False.
C1_Idempotence ==
    [][(pc = "once" /\ other = constant) => (content' = content /\ changed' = FALSE)]_vars

\* C2 (exclusivity of qualification): in the content process_file has
\* computed for a file it could read, every whole-word occurrence of a
\* Registry identifier is directly preceded by `dev.`.
C2_Exclusivity ==
    \A e \in 1..Len(log) :
        log[e].read_ok =>
            \A id \in RegistryIds : \A k \in 1..Len(log[e].final) :
                LET s == log[e].final
                    whole == /\ WordStart(s, k)
                             /\ SubAt(s, id, k)
                             /\ (k + Len(id) > Len(s) \/ ~IsWord(s[k + Len(id)]))
                IN  whole => SubAt(s, <<"dev", ".">>, k - 2)

\* C3 (declaration demotion): one call of the engine on `const T n = id;`
\* with that id yields exactly `final T n = dev.id;`.
C3_DeclarationDemotion ==
    \A T \in Types, n \in Names :
        (pc = "once" /\ input = Declaration(<<>>, T, n, constant)) =>
            content = <<"final", " ">> \o T \o <<" ">> \o n \o <<" ", "=", " ">>
                      \o <<"dev", ".">> \o constant \o <<";">>

\* C4 (static declaration demotion): one call of the engine on
\* `static const T n = id;` with that id yields `static final T n = dev.id;`.
C4_StaticDeclarationDemotion ==
    \A T \in Types, n \in Names :
        (pc = "once" /\ input = Declaration(<<"static", " ">>, T, n, constant)) =>
            content = <<"static", " ", "final", " ">> \o T \o <<" ">> \o n \o <<" ", "=", " ">>
                      \o <<"dev", ".">> \o constant \o <<";">>

\* C5 (construction-site demotion): when process_file reads `const C(args)`
\* where args has no parenthesis and holds bare Registry identifiers as whole
\* words, none followed by `.`, the content it computes is `C(args')`, args'
\* being args with `dev.` put before each of those identifiers: `const` is
\* removed once and nothing else changes.
C5_ConstructionSiteDemotion ==
    \A e \in 1..Len(log) :
        LET s == log[e].original
            args == SubSeq(s, 5, Len(s) - 1)
            \* a whole word of a that starts at k and is a Registry identifier
            \* not yet qualified
            bare(a, k) ==
                /\ IsWord(a[k]) /\ WordStart(a, k)
                /\ SubSeq(a, k, SkipWord(a, k) - 1) \in RegistryIds
                /\ ~SubAt(a, <<"dev", ".">>, k - 2)
            RECURSIVE qualify(_, _)
            \* a from position k on, each bare identifier qualified
            qualify(a, k) ==
                IF k > Len(a) THEN <<>>
                ELSE IF bare(a, k)
                     THEN <<"dev", ".">> \o SubSeq(a, k, SkipWord(a, k) - 1)
                          \o qualify(a, SkipWord(a, k))
                     ELSE <<a[k]>> \o qualify(a, k + 1)
            words == {k \in 1..Len(args) : bare(args, k)}
            site == /\ log[e].read_ok
                    /\ Len(s) >= 5
                    /\ s = Site(args)
                    /\ \A k \in 1..Len(args) : args[k] \notin {"(", ")"}
                    /\ words # {}
                    /\ \A k \in words : At(args, SkipWord(args, k)) # "."
        IN  site => log[e].final = <<"C", "(">> \o qualify(args, 1) \o <<")">>

\* C6 (order independence): for two distinct identifiers, the engine called
\* with the one and then the other yields the same content as called with
\* the other and then the one.
C6_OrderIndependence ==
    (pc = "twice" /\ other # constant) => content = content2

\* C7 (word-boundary correctness): when the identifier occurs nowhere in the
\* input as a whole word, one call of the engine returns the input unchanged
\* and changed = False.
C7_WordBoundary ==
    LET whole(k) == /\ WordStart(input, k)
                    /\ SubAt(input, constant, k)
                    /\ (k + Len(constant) > Len(input) \/ ~IsWord(input[k + Len(constant)]))
    IN  (pc = "once" /\ \A k \in 1..Len(input) : ~whole(k)) =>
            (content = input /\ changed = FALSE)

\* C8 (re-run reaches a fixed point): when the first run read every file and
\* wrote every changed file without error, the second run opens no file for
\* writing and ends with 0 updated files.
C8_RerunFixedPoint ==
    LET clean(e) == log[e].read_ok /\ (log[e].final # log[e].original => log[e].wrote)
    IN  (/\ run = 2 /\ pc = "done"
         /\ \A e \in 1..Len(log) : log[e].run = 1 => clean(e)) =>
            /\ \A e \in 1..Len(log) : log[e].run = 2 => ~log[e].opened
            /\ updated_files = 0

\* C9 (failure isolation): a failed read or write is caught inside
\* process_file, which returns False, and main goes on: no run is aborted,
\* process_file is called once per discovered file in discovery order, a
\* file whose read failed is not touched, the loop always has its next step
\* (the next file, or the summary), and the count at the summary is the
\* number of files written.
C9_FailureIsolation ==
    LET calls == SelectSeq(log, LAMBDA e : e.run = run)
        written == {k \in 1..Len(calls) : calls[k].wrote}
    IN  /\ pc # "aborted"
        /\ \A e \in 1..Len(log) :
             /\ ~log[e].read_ok => (~log[e].opened /\ log[e].after = log[e].before)
             /\ log[e].ret = log[e].wrote
        /\ pc \in {"loop", "done"} =>
             /\ i \in 1..(Len(dart_files) + 1)
             /\ Len(calls) = i - 1
             /\ \A k \in 1..Len(calls) : calls[k].file = dart_files[k]
             /\ updated_files = Cardinality(written)
        /\ pc = "done" => Len(calls) = Len(dart_files)

\* a run reached the summary after the read or the write of one file
\* failed and a later file of that run was written
C9_Witness ==
    /\ pc = "done"
    /\ \E j \in 1..Len(log), k \in 1..Len(log) :
         /\ j < k /\ log[j].run = run /\ log[k].run = run
         /\ (~log[j].read_ok \/ (log[j].final # log[j].original /\ ~log[j].wrote))
         /\ log[k].wrote

\* C10 (no-op on unrelated text): process_file opens a file for writing only
\* when the content it computed differs from the content it read, and the
\* file changes only then; a file that holds no Registry identifier is
\* returned unchanged with changed = False by every engine call, is not
\* opened for writing, keeps its content, and process_file returns False.
C10_NoOpOnUnrelatedText ==
    \A e \in 1..Len(log) :
        /\ log[e].opened => (log[e].read_ok /\ log[e].final # log[e].original)
        /\ log[e].after # log[e].before => log[e].opened
        /\ (\A id \in RegistryIds : ~Contains(log[e].before, id)) =>
              /\ \A id \in RegistryIds :
                    process_constant_in_content(log[e].before, id) = <<log[e].before, FALSE>>
              /\ log[e].read_ok => (log[e].final = log[e].before /\ log[e].changes_made = <<>>)
              /\ ~log[e].opened
              /\ log[e].after = log[e].before
              /\ ~log[e].ret

\* a file without Registry identifiers was read, and another file was written
C10_Witness ==
    /\ \E e \in 1..Len(log) :
         /\ log[e].read_ok
         /\ \A id \in RegistryIds : ~Contains(log[e].original, id)
         /\ ~log[e].ret
    /\ \E e \in 1..Len(log) : log[e].wrote

====
